---- MODULE Spec2Model ----
(***************************************************************************)
(* Model of .amal/orchestrator.py: the iteration orchestrator (main) with   *)
(* its collaborators run_cmd, apply_patch, update_status, parse_acceptance, *)
(* the instruction schema and the notification call post_issue_comment.     *)
(*                                                                         *)
(* Text is modelled as a sequence of characters; a log is a sequence of     *)
(* log parts.  JSON values are records tagged with their JSON type in the   *)
(* field t.  Python's None is the string "None" where the other values are  *)
(* records or strings, and 0 for the issue number (both are falsy).         *)
(***************************************************************************)
EXTENDS Integers, Sequences, FiniteSets, TLC

\* ------------------------------------------------------------------ bounds
\* longest command list an instruction of the model carries
MaxCommands == 2
\* longest captured output of the acceptance command in VerifierSpec
MaxOutLen == 3
\* longest expect_contains text in VerifierSpec
MaxExpectLen == 2

\* --------------------------------------------------------- program constants
\* main: max_iter = 6
max_iter == 6
\* main: c.get("timeout", 180)
DefaultCmdTimeout == 180
\* main: acceptance.get("timeout", 60)
DefaultAcceptTimeout == 60
\* apply_patch: run_cmd(..., timeout=60)
PatchTimeout == 60
\* main: last_logs[-4000:]
StatusLogTail == 4000
\* run_cmd: code = -9 on TimeoutExpired
TimeoutCode == -9

\* Python's None
None == [t |-> "null"]

\* ------------------------------------------------------------- text helpers
Whitespace == {" ", "\n"}

\* s.strip() is empty exactly when every character of s is whitespace
StripIsEmpty(s) == \A i \in 1..Len(s) : s[i] \in Whitespace

\* Python's `sub in s` on strings: sub is a contiguous, case-sensitive infix
Contains(sub, s) ==
    \E i \in 0..(Len(s) - Len(sub)) : SubSeq(s, i + 1, i + Len(sub)) = sub

\* s[-n:] for n > 0
Tail_n(s, n) == IF Len(s) <= n THEN s ELSE SubSeq(s, Len(s) - n + 1, Len(s))

\* all sequences over S of length 0..n
RECURSIVE SeqsUpTo(_, _)
SeqsUpTo(S, n) ==
    IF n = 0 THEN {<<>>}
    ELSE LET shorter == SeqsUpTo(S, n - 1)
         IN  shorter \cup {Append(s, x) : s \in {t \in shorter : Len(t) = n - 1}, x \in S}

\* ------------------------------------------------------------ Status Store
EmptyDict == <<>>

\* dict.update: keys of data overwrite, the other keys of existing persist
DictUpdate(existing, data) ==
    [k \in (DOMAIN existing) \cup (DOMAIN data) |->
        IF k \in DOMAIN data THEN data[k] ELSE existing[k]]

\* update_status, lines 53-58: the base the partial record is merged into.
\* json.loads returns whatever JSON value the file holds; only a failure to
\* parse falls back to {}.
ExistingStatus(file) ==
    IF file.exists /\ file.json # "garbage"
    THEN [t |-> file.json, obj |-> file.obj]
    ELSE [t |-> "object", obj |-> EmptyDict]

\* update_status, line 59: existing.update(data) exists only on a dict
UpdateStatusRaises(file) == ExistingStatus(file).t # "object"

\* the file written with the partial record alone, without the merge
update_status_Overwrite(file, data) ==
    [exists |-> TRUE, json |-> "object", obj |-> data]

\* update_status, lines 59-60
update_status(file, data) ==
    [exists |-> TRUE, json |-> "object",
     obj |-> DictUpdate(ExistingStatus(file).obj, data)]

\* the persisted record holds `key` with value `value`
StatusHas(file, key, value) ==
    /\ file.exists /\ file.json = "object"
    /\ key \in DOMAIN file.obj
    /\ file.obj[key] = value

\* ------------------------------------------------------- instruction schema
\* JSON values of the model: [t |-> "absent"] for a missing key,
\* [t |-> "string", s |-> text], [t |-> "integer", n |-> number],
\* [t |-> "number"], [t |-> "array", items |-> sequence], and objects with
\* their keys as fields.
Absent == [t |-> "absent"]
JStr(text) == [t |-> "string", s |-> text]
JInt(n) == [t |-> "integer", n |-> n]

\* INSTRUCTION_SCHEMA.properties.commands.items: an object whose cmd is
\* required and a string, whose optional cwd is a string and whose optional
\* timeout is an integer
ValidCommandItem(c) ==
    /\ c.t = "object"
    /\ c.cmd.t = "string"
    /\ c.cwd.t \in {"absent", "string"}
    /\ c.timeout.t \in {"absent", "integer"}

\* validate(instr, INSTRUCTION_SCHEMA): no exception
ValidInstruction(i) ==
    /\ i.t = "object"
    /\ i.patch.t \in {"absent", "string"}
    /\ \/ i.commands.t = "absent"
       \/ /\ i.commands.t = "array"
          /\ \A k \in 1..Len(i.commands.items) : ValidCommandItem(i.commands.items[k])

\* ----------------------------------------------------- the Instruction Source
Cmd(cmd, cwd, timeout) == [t |-> "object", cmd |-> cmd, cwd |-> cwd, timeout |-> timeout]

\* the command items the Instruction Source of the model chooses from
CommandPool ==
    { Cmd(JStr("A"), Absent, Absent),
      Cmd(JStr("B"), JStr("sub"), JInt(5)),
      Cmd(JStr("C"), JStr("nodir"), Absent) }

\* patch texts: empty, whitespace only, a diff
PatchTexts == { <<>>, <<" ", "\n">>, <<"d", "\n">> }

Instr(patch, commands) == [t |-> "object", patch |-> patch, commands |-> commands]

\* the answers that validate: every command list without a patch, and every
\* patch text without commands, with an empty list and with one command
WellFormedResponses ==
    { Instr(Absent, c) :
        c \in {Absent} \cup {[t |-> "array", items |-> s] : s \in SeqsUpTo(CommandPool, MaxCommands)} }
    \cup
    { Instr(JStr(x), c) :
        x \in PatchTexts,
        c \in {Absent} \cup {[t |-> "array", items |-> s] : s \in SeqsUpTo({Cmd(JStr("A"), Absent, Absent)}, 1)} }

\* responses validate() rejects: a commands item without cmd, a patch that is
\* not a string, a commands value that is not an array, a JSON array
MalformedResponses ==
    { Instr(Absent, [t |-> "array", items |-> <<Cmd(Absent, Absent, Absent)>>]),
      Instr(Absent, [t |-> "array", items |-> <<Cmd(JStr("A"), Absent, Absent), Cmd(Absent, JStr("sub"), Absent)>>]),
      Instr([t |-> "number"], Absent),
      Instr(Absent, JStr(<<"A">>)),
      [t |-> "array", items |-> <<>>] }

\* call_model: the provider's answer deserialized, or an exception (network
\* error, HTTP error status, content that is no JSON, unknown provider)
CallModelOutcomes ==
    {[raised |-> FALSE, value |-> v] : v \in WellFormedResponses \cup MalformedResponses}
    \cup {[raised |-> TRUE, value |-> Absent]}

\* ------------------------------------------------------------ Shell Executor
\* directories of the environment; ROOT always exists
ROOT == "ROOT"
ExistingDirs == {ROOT, "sub"}

\* run_cmd: f"[TIMEOUT after {timeout}s]"
TimeoutMarker(timeout) == <<"[TIMEOUT after ", ToString(timeout), "s]">>

\* run_cmd, line 96: Popen(cmd, cwd=cwd or ROOT, ...) raises when the
\* directory does not exist; the call is outside the try block
RunCmdDir(cwd) == IF cwd = "" THEN ROOT ELSE cwd
PopenRaises(cwd) == RunCmdDir(cwd) \notin ExistingDirs

\* run_cmd, lines 97-105: the results the call can give when the process
\* writes one of `outs`: a natural exit with the process's return code and
\* output, or, when communicate() runs past the timeout, the kill with the
\* marker and -9.  timed_out and timeout record which of the two happened and
\* the timeout the call was given.
ExitCodes == {0, 1, TimeoutCode}

\* the timeout branch without its code = -9
run_cmd_TimeoutKeepsCode(cwd, timeout, outs) ==
    IF PopenRaises(cwd)
    THEN {[raised |-> TRUE, code |-> 1, out |-> <<>>, timed_out |-> FALSE, timeout |-> timeout]}
    ELSE {[raised |-> FALSE, code |-> c, out |-> o, timed_out |-> FALSE, timeout |-> timeout] :
              c \in ExitCodes, o \in outs}
         \cup {[raised |-> FALSE, code |-> 0, out |-> TimeoutMarker(timeout),
                timed_out |-> TRUE, timeout |-> timeout]}

run_cmd(cwd, timeout, outs) ==
    IF PopenRaises(cwd)
    THEN {[raised |-> TRUE, code |-> 1, out |-> <<>>, timed_out |-> FALSE, timeout |-> timeout]}
    ELSE {[raised |-> FALSE, code |-> c, out |-> o, timed_out |-> FALSE, timeout |-> timeout] :
              c \in ExitCodes, o \in outs}
         \cup {[raised |-> FALSE, code |-> TimeoutCode, out |-> TimeoutMarker(timeout),
                timed_out |-> TRUE, timeout |-> timeout]}

\* ------------------------------------------------------------- Patch Applier
\* what the patch tool prints
PatchToolOutputs == { <<"p">> }

\* a patch message: its text, and for "Patch failed" the tool's code and output
PatchMsg(text) == [text |-> text, code |-> 0, out |-> <<>>]

\* the call without the test of lines 108-109 for a blank text
apply_patch_NoBlankTest(patch_text) ==
    {[ok |-> r.code = 0,
      msg |-> IF r.code # 0 THEN [text |-> "Patch failed", code |-> r.code, out |-> r.out]
              ELSE PatchMsg("Patch applied"),
      wrote |-> TRUE,
      tool |-> TRUE] : r \in run_cmd(ROOT, PatchTimeout, PatchToolOutputs)}

\* apply_patch: the (ok, message) pairs the call can return; wrote tells
\* whether .amal/tmp.patch was written (line 113), tool whether the patch tool
\* was run (line 117)
apply_patch(patch_text) ==
    IF StripIsEmpty(patch_text)
    THEN {[ok |-> TRUE, msg |-> PatchMsg("No patch provided"), wrote |-> FALSE, tool |-> FALSE]}
    ELSE {[ok |-> r.code = 0,
           msg |-> IF r.code # 0 THEN [text |-> "Patch failed", code |-> r.code, out |-> r.out]
                   ELSE PatchMsg("Patch applied"),
           wrote |-> TRUE,
           tool |-> TRUE] : r \in run_cmd(ROOT, PatchTimeout, PatchToolOutputs)}

\* ------------------------------------------------------- Acceptance Verifier
\* the verdict with the exit code left out
AcceptancePassedAnyExit(code, expect_contains, out) ==
    Contains(expect_contains, out)

\* main, line 256: passed = (code == 0 and acceptance["expect_contains"] in out)
AcceptancePassed(code, expect_contains, out) ==
    code = 0 /\ Contains(expect_contains, out)

\* parse_acceptance: the body as the features the function inspects
\*   fence: a ```yaml ... ``` block is found;  yaml: what safe_load gives
\*   ("error" for a YAML error, "scalar" for a document that is no mapping,
\*   "mapping");  accept: the ACCEPT value ("absent", "scalar", "mapping");
\*   cmd, expect_contains, timeout: the values of ACCEPT's keys
parse_acceptance(body) ==
    IF ~body.fence THEN None
    ELSE IF body.yaml # "mapping" THEN None
    ELSE IF body.accept = "mapping" /\ body.cmd.t # "absent" /\ body.expect_contains.t # "absent"
         THEN [t |-> "object", cmd |-> body.cmd,
               expect_contains |-> body.expect_contains, timeout |-> body.timeout]
    ELSE None

\* ------------------------------------------------------------------- state
VARIABLES
    pc,           \* position of main
    issue_no,     \* detect_issue_context: the issue number, or None
    acceptance,   \* parse_acceptance(issue_body), or None
    DOCS_STATUS,  \* docs/status.json: [exists, json, obj]
    iteration,    \* main's loop counter
    last_logs,    \* main: the log carried to the next request
    instr,        \* main: the instruction of this iteration
    patch_msg,    \* main: the patch message of this iteration
    run_logs,     \* main: the command log of this iteration
    cmd_i,        \* main: index of the next command of the for loop
    result,       \* main: code, out of the latest run_cmd call
    passed,       \* main: the acceptance verdict of this iteration
    exit_code,    \* the process's exit code (meaningful at pc = "exited")
    requests,     \* history: number of call_model calls
    executed,     \* history: the commands started in this iteration, in order
    patched,      \* history: what apply_patch did in this iteration
    checked,      \* history: acceptance runs in this iteration
    invalid,      \* history: an answer of the Instruction Source was rejected
    abort,        \* history: the call whose exception ended the process
    written,      \* history: each key update_status wrote, with its latest value
    unreported    \* history: the latest event no notification has followed yet

vars == <<pc, issue_no, acceptance, DOCS_STATUS, iteration, last_logs, instr,
          patch_msg, run_logs, cmd_i, result, passed, exit_code,
          requests, executed, patched, checked, invalid, abort, written,
          unreported>>

\* ------------------------------------------------------------ the environment
\* the triggering events: no issue, or an issue with a body
IssueNumbers == {7}
Text_Hi == <<"H", "i">>
Bodies ==
    { [fence |-> FALSE, yaml |-> "mapping", accept |-> "absent",
       cmd |-> Absent, expect_contains |-> Absent, timeout |-> Absent],
      [fence |-> TRUE, yaml |-> "error", accept |-> "absent",
       cmd |-> Absent, expect_contains |-> Absent, timeout |-> Absent],
      [fence |-> TRUE, yaml |-> "mapping", accept |-> "mapping",
       cmd |-> JStr("run"), expect_contains |-> Absent, timeout |-> Absent],
      [fence |-> TRUE, yaml |-> "mapping", accept |-> "mapping",
       cmd |-> JStr("run"), expect_contains |-> JStr(Text_Hi), timeout |-> Absent] }

\* detect_issue_context: (number, body) of the event; no issue gives (None, "")
EmptyBody == [fence |-> FALSE, yaml |-> "mapping", accept |-> "absent",
              cmd |-> Absent, expect_contains |-> Absent, timeout |-> Absent]
Events ==
    {[number |-> None, body |-> EmptyBody]}
    \cup {[number |-> JInt(n), body |-> b] : n \in IssueNumbers, b \in Bodies}

\* what docs/status.json can hold before the run: nothing, text that is no
\* JSON, a JSON array, the record a previous run left
StaleRecord == [phase |-> "failed", result |-> "max_iterations", progress |-> 83]
InitialStatusFiles ==
    { [exists |-> FALSE, json |-> "garbage", obj |-> EmptyDict],
      [exists |-> TRUE, json |-> "garbage", obj |-> EmptyDict],
      [exists |-> TRUE, json |-> "array", obj |-> EmptyDict],
      [exists |-> TRUE, json |-> "object", obj |-> StaleRecord] }

\* what the acceptance command and the instruction's commands print
AcceptOutputs == { Text_Hi, <<"h", "i">> }
CommandOutputs == { <<"o">> }

\* post_issue_comment, lines 38-49: gh_api raises on a network error and on an
\* HTTP error status (raise_for_status); nothing catches it.  `if issue_no:`
\* skips the call when there is no issue.
NotifyOutcomes(number) ==
    IF number = None THEN {"skipped"} ELSE {"delivered", "raised"}

NoInstr == Instr(Absent, Absent)
NoResult == [raised |-> FALSE, code |-> 0, out |-> <<>>, timed_out |-> FALSE, timeout |-> 0]

Init ==
    /\ pc = "main"
    /\ \E ev \in Events :
         /\ issue_no = ev.number
         /\ acceptance = parse_acceptance(ev.body)
    /\ DOCS_STATUS \in InitialStatusFiles
    /\ iteration = 1
    /\ last_logs = <<>>
    /\ instr = NoInstr
    /\ patch_msg = PatchMsg("No patch")
    /\ run_logs = <<>>
    /\ cmd_i = 1
    /\ result = NoResult
    /\ passed = FALSE
    /\ exit_code = 0
    /\ requests = 0
    /\ executed = <<>>
    /\ patched = "none"
    /\ checked = 0
    /\ invalid = FALSE
    /\ abort = "none"
    /\ written = EmptyDict
    /\ unreported = "none"

\* a call of update_status(data) that returns: the file holds the merge, and
\* the history notes the keys of data with their values
WriteStatus(data) ==
    /\ DOCS_STATUS' = update_status(DOCS_STATUS, data)
    /\ written' = DictUpdate(written, data)

\* `event` has happened and `if issue_no: post_issue_comment(...)` follows
\* it: the event stays unreported when the call raises (without an issue
\* number there is nobody to report to, and no event is tracked)
Notified(event, note) ==
    unreported' = IF note = "raised" THEN event ELSE "none"

\* an uncaught exception: the interpreter prints the traceback and exits 1
Raise(cause) ==
    /\ pc' = "exited"
    /\ exit_code' = 1
    /\ abort' = cause

\* ------------------------------------------------------------------ actions
\* main, lines 199-210
StartStatus == [phase |-> "start", issue |-> issue_no, ts |-> "now"]
Start ==
    /\ pc = "main"
    /\ UNCHANGED <<issue_no, acceptance, iteration, last_logs, instr, patch_msg,
                   run_logs, cmd_i, result, passed, requests, invalid, executed, patched, checked,
                   unreported>>
    /\ IF UpdateStatusRaises(DOCS_STATUS)
       THEN Raise("update_status") /\ UNCHANGED <<DOCS_STATUS, written>>
       ELSE /\ WriteStatus(StartStatus)
            /\ \E note \in NotifyOutcomes(issue_no) :
                 IF note = "raised"
                 THEN Raise("post_issue_comment")
                 ELSE pc' = "loop" /\ UNCHANGED <<exit_code, abort>>

\* main, line 212: while iteration <= max_iter
LoopCondition(k) == k <= max_iter

\* the percentage of the iterations begun, not of those completed
Progress_OfBegun(k) == (k * 100) \div max_iter

\* main, line 213: int((iteration-1)/max_iter*100)
Progress(k) == ((k - 1) * 100) \div max_iter

\* main, lines 212-217: the loop test, the iterating status, the request and
\* the validation of the answer
BeginIteration ==
    /\ pc = "loop"
    /\ LoopCondition(iteration)
    /\ WriteStatus(
           [phase |-> "iterating", iteration |-> iteration, progress |-> Progress(iteration)])
    /\ requests' = requests + 1
    /\ \E answer \in CallModelOutcomes :
         IF answer.raised \/ ~ValidInstruction(answer.value)
         THEN /\ pc' = "invalid"
              /\ invalid' = TRUE
              /\ UNCHANGED instr
         ELSE /\ pc' = "patch"
              /\ invalid' = invalid
              /\ instr' = answer.value
    /\ UNCHANGED <<issue_no, acceptance, iteration, last_logs, patch_msg, run_logs,
                   cmd_i, result, passed, exit_code, executed, patched, checked, abort,
                   unreported>>

\* main, line 219: the message of a rejected answer (the exception's text
\* left out)
InvalidMsg(k) == "Invalid model output on iter " \o ToString(k)

\* main, lines 218-222: except Exception: report, record the error, break
ReportInvalid ==
    /\ pc = "invalid"
    /\ UNCHANGED <<issue_no, acceptance, iteration, last_logs, instr, patch_msg,
                   run_logs, cmd_i, result, passed, requests, invalid, executed, patched, checked,
                   unreported>>
    /\ \E note \in NotifyOutcomes(issue_no) :
         IF note = "raised"
         THEN Raise("post_issue_comment") /\ UNCHANGED <<DOCS_STATUS, written>>
         ELSE /\ WriteStatus(
                    [error |-> InvalidMsg(iteration)])
              /\ pc' = "after_loop"
              /\ UNCHANGED <<exit_code, abort>>

\* main, line 226: "patch" in instr and instr["patch"]
HasPatch(i) == i.patch.t = "string" /\ Len(i.patch.s) > 0

\* main, lines 225-228: apply the patch, if any
ApplyPatch ==
    /\ pc = "patch"
    /\ IF HasPatch(instr)
       THEN \E r \in apply_patch(instr.patch.s) :
              /\ patch_msg' = r.msg
              /\ patched' = IF ~r.wrote /\ ~r.tool THEN "noop"
                             ELSE IF r.ok THEN "applied" ELSE "failed"
              /\ pc' = IF r.ok THEN "commands" ELSE "patch_error"
              /\ unreported' = IF r.tool /\ issue_no # None THEN "patch" ELSE unreported
       ELSE /\ patch_msg' = PatchMsg("No patch")
            /\ patched' = "none"
            /\ pc' = "commands"
            /\ UNCHANGED unreported
    /\ run_logs' = IF pc' = "commands" THEN <<>> ELSE run_logs
    /\ cmd_i' = 1
    /\ UNCHANGED <<issue_no, acceptance, DOCS_STATUS, written, iteration, last_logs, instr,
                   result, passed, exit_code, requests, invalid, executed, checked, abort>>

\* The locals of one iteration are assigned again before the next iteration
\* reads them (instr line 216, patch_msg 225, run_logs 236, code/out 241 and
\* 255, passed 256): the model clears them, and the per-iteration history,
\* where the iteration ends.
ClearLocals ==
    /\ instr' = NoInstr
    /\ patch_msg' = PatchMsg("No patch")
    /\ run_logs' = <<>>
    /\ cmd_i' = 1
    /\ result' = NoResult
    /\ passed' = FALSE
    /\ executed' = <<>>
    /\ patched' = "none"
    /\ checked' = 0
    /\ unreported' = "none"

KeepLocals ==
    UNCHANGED <<instr, patch_msg, run_logs, cmd_i, result, passed, executed, patched, checked,
                unreported>>

\* main, lines 229-233: the patch failed: carry its message, report, record,
\* count the iteration and continue with the next one
PatchError ==
    /\ pc = "patch_error"
    /\ last_logs' = <<patch_msg>>
    /\ UNCHANGED <<issue_no, acceptance, requests, invalid>>
    /\ \E note \in NotifyOutcomes(issue_no) :
         IF note = "raised"
         THEN Raise("post_issue_comment") /\ KeepLocals /\ UNCHANGED <<DOCS_STATUS, written, iteration>>
         ELSE /\ WriteStatus(
                    [error |-> "patch_failed", detail |-> patch_msg])
              /\ iteration' = iteration + 1
              /\ pc' = "loop"
              /\ ClearLocals
              /\ UNCHANGED <<exit_code, abort>>

\* main, line 237: instr.get("commands", [])
Commands(i) == IF i.commands.t = "array" THEN i.commands.items ELSE <<>>

\* main, lines 239-240: c.get("cwd", str(ROOT)), c.get("timeout", 180)
CommandCwd(c) == IF c.cwd.t = "string" THEN c.cwd.s ELSE ROOT
CommandTimeout(c) == IF c.timeout.t = "integer" THEN c.timeout.n ELSE DefaultCmdTimeout

\* the loop without its break
FailFastNever(code) == FALSE

\* main, line 245: if code != 0: break
FailFast(code) == code # 0

\* main, lines 237-247: one round of the for loop over the commands
RunCommand ==
    /\ pc = "commands"
    /\ cmd_i <= Len(Commands(instr))
    /\ LET c == Commands(instr)[cmd_i] IN
       \E r \in run_cmd(CommandCwd(c), CommandTimeout(c), CommandOutputs) :
         IF r.raised
         THEN /\ Raise("run_cmd")
              /\ UNCHANGED <<run_logs, cmd_i, result, executed, unreported>>
         ELSE /\ result' = r
              /\ executed' = Append(executed, [i |-> cmd_i, cmd |-> c.cmd.s, code |-> r.code])
              /\ run_logs' = Append(run_logs, [cmd |-> c.cmd.s, code |-> r.code, out |-> r.out])
              /\ \E note \in NotifyOutcomes(issue_no) :
                   /\ Notified("command", note)
                   /\ IF note = "raised"
                      THEN Raise("post_issue_comment") /\ UNCHANGED cmd_i
                      ELSE /\ UNCHANGED <<exit_code, abort>>
                           /\ IF FailFast(r.code)
                              THEN pc' = "save_logs" /\ UNCHANGED cmd_i
                              ELSE pc' = "commands" /\ cmd_i' = cmd_i + 1
    /\ UNCHANGED <<issue_no, acceptance, DOCS_STATUS, written, iteration, last_logs, instr,
                   patch_msg, passed, requests, invalid, patched, checked>>

\* main, line 250: patch_msg + "\n\n" + "\n\n---\n\n".join(run_logs)
JoinLogs(msg, logs) == <<msg>> \o logs

\* main, lines 249-251: the loop over the commands is over: save the logs
SaveLogs ==
    /\ \/ pc = "save_logs"
       \/ pc = "commands" /\ cmd_i > Len(Commands(instr))
    /\ last_logs' = JoinLogs(patch_msg, run_logs)
    /\ WriteStatus(
           [last_logs |-> Tail_n(last_logs', StatusLogTail)])
    /\ pc' = "accept"
    /\ UNCHANGED <<issue_no, acceptance, iteration, instr, patch_msg, run_logs, cmd_i,
                   result, passed, exit_code, requests, invalid, executed, patched, checked, abort,
                   unreported>>

\* main, line 255: int(acceptance.get("timeout", 60))
AcceptTimeout(acc) == IF acc.timeout.t = "integer" THEN acc.timeout.n ELSE DefaultAcceptTimeout

\* main, lines 254-258: run the acceptance command, compute the verdict, report
AcceptanceRun(outs) ==
    /\ pc = "accept"
    /\ acceptance # None
    /\ \E r \in run_cmd(ROOT, AcceptTimeout(acceptance), outs) :
         /\ result' = r
         /\ passed' = AcceptancePassed(r.code, acceptance.expect_contains.s, r.out)
    /\ checked' = checked + 1
    /\ \E note \in NotifyOutcomes(issue_no) :
         /\ Notified("acceptance", note)
         /\ IF note = "raised"
            THEN Raise("post_issue_comment")
            ELSE pc' = "verdict" /\ UNCHANGED <<exit_code, abort>>
    /\ UNCHANGED <<issue_no, acceptance, DOCS_STATUS, written, iteration, last_logs, instr,
                   patch_msg, run_logs, cmd_i, requests, invalid, executed, patched>>

Acceptance == AcceptanceRun(AcceptOutputs)

\* the done record clearing the error of an earlier iteration
PassedStatus_ClearsError ==
    [phase |-> "done", progress |-> 100, result |-> "passed", error |-> "", detail |-> ""]

\* main, line 260
PassedStatus == [phase |-> "done", progress |-> 100, result |-> "passed"]

\* main, lines 259-262: the verdict is true: record done, report, return
AcceptanceMet ==
    /\ pc = "verdict"
    /\ passed
    /\ WriteStatus(PassedStatus)
    /\ \E note \in NotifyOutcomes(issue_no) :
         /\ Notified("verdict", note)
         /\ IF note = "raised"
            THEN Raise("post_issue_comment")
            ELSE pc' = "exited" /\ exit_code' = 0 /\ UNCHANGED abort
    /\ UNCHANGED <<issue_no, acceptance, iteration, last_logs, instr, patch_msg, run_logs,
                   cmd_i, result, passed, requests, invalid, executed, patched, checked>>

\* main, lines 263-264 and 271-272: the verdict is false: report, count the
\* iteration, sleep, loop
AcceptanceNotMet ==
    /\ pc = "verdict"
    /\ ~passed
    /\ \E note \in NotifyOutcomes(issue_no) :
         IF note = "raised"
         THEN Raise("post_issue_comment") /\ KeepLocals /\ UNCHANGED iteration
         ELSE /\ iteration' = iteration + 1
              /\ pc' = "loop"
              /\ ClearLocals
              /\ UNCHANGED <<exit_code, abort>>
    /\ UNCHANGED <<issue_no, acceptance, DOCS_STATUS, written, last_logs, requests, invalid>>

\* the record of the acceptance branch written in the else branch
NoAcceptStatusAsDone == [phase |-> "done", progress |-> 100, result |-> "passed"]

\* main, line 267
NoAcceptStatus == [phase |-> "done_no_accept", progress |-> 100]

\* main, lines 265-269: no Acceptance Spec: record done_no_accept, report, return
NoAcceptance ==
    /\ pc = "accept"
    /\ acceptance = None
    /\ WriteStatus(NoAcceptStatus)
    /\ \E note \in NotifyOutcomes(issue_no) :
         /\ Notified("verdict", note)
         /\ IF note = "raised"
            THEN Raise("post_issue_comment")
            ELSE pc' = "exited" /\ exit_code' = 0 /\ UNCHANGED abort
    /\ UNCHANGED <<issue_no, acceptance, iteration, last_logs, instr, patch_msg, run_logs,
                   cmd_i, result, passed, requests, invalid, executed, patched, checked>>

\* main, line 275
FailedStatus == [phase |-> "failed", result |-> "max_iterations"]

\* main, lines 274-278: the loop was left by its condition or by break:
\* record failed, report, sys.exit(1)
Exhausted ==
    /\ \/ pc = "after_loop"
       \/ pc = "loop" /\ ~LoopCondition(iteration)
    /\ WriteStatus(FailedStatus)
    /\ \E note \in NotifyOutcomes(issue_no) :
         /\ Notified("verdict", note)
         /\ IF note = "raised"
            THEN Raise("post_issue_comment")
            ELSE pc' = "exited" /\ exit_code' = 1 /\ UNCHANGED abort
    /\ UNCHANGED <<issue_no, acceptance, iteration, last_logs, instr, patch_msg, run_logs,
                   cmd_i, result, passed, requests, invalid, executed, patched, checked>>

Next ==
    \/ Start
    \/ BeginIteration
    \/ ReportInvalid
    \/ ApplyPatch
    \/ PatchError
    \/ RunCommand
    \/ SaveLogs
    \/ Acceptance
    \/ AcceptanceMet
    \/ AcceptanceNotMet
    \/ NoAcceptance
    \/ Exhausted

Spec == Init /\ [][Next]_vars

\* main is one sequential process whose blocking calls all return (run_cmd by
\* its timeout, the HTTP calls by theirs, sleep after 2 s): whenever a step is
\* possible the process takes one
FairSpec == Spec /\ WF_vars(Next)

\* ------------------------------------------- the Acceptance Verifier alone
\* The acceptance step of main on every expected text and every captured
\* output up to the bounds, with no issue to notify.
Alphabet == {"H", "h", "i"}
VerifierOutputs == SeqsUpTo(Alphabet, MaxOutLen)
VerifierExpects == SeqsUpTo(Alphabet, MaxExpectLen)

VerifierInit ==
    /\ pc = "accept"
    /\ issue_no = None
    /\ \E e \in VerifierExpects, tm \in {Absent, JInt(30)} :
         acceptance = [t |-> "object", cmd |-> JStr("run"),
                       expect_contains |-> JStr(e), timeout |-> tm]
    /\ DOCS_STATUS = update_status([exists |-> FALSE, json |-> "garbage", obj |-> EmptyDict],
                                   [phase |-> "iterating", iteration |-> 1, progress |-> Progress(1)])
    /\ iteration = 1
    /\ last_logs = JoinLogs(PatchMsg("No patch"), <<>>)
    /\ instr = NoInstr
    /\ patch_msg = PatchMsg("No patch")
    /\ run_logs = <<>>
    /\ cmd_i = 1
    /\ result = NoResult
    /\ passed = FALSE
    /\ exit_code = 0
    /\ requests = 1
    /\ executed = <<>>
    /\ patched = "none"
    /\ checked = 0
    /\ invalid = FALSE
    /\ abort = "none"
    /\ written = [phase |-> "iterating", iteration |-> 1, progress |-> Progress(1)]
    /\ unreported = "none"

VerifierNext == AcceptanceRun(VerifierOutputs)

VerifierSpec == VerifierInit /\ [][VerifierNext]_vars

\* ------------------------------------------------ the Status Store by itself
\* update_status called with any sequence of partial records, on any of the
\* initial files
StoreKeys == {"phase", "result", "error", "detail"}
StoreValues == {"a", "b"}
StorePartials == UNION {[S -> StoreValues] : S \in SUBSET StoreKeys}

StoreInit ==
    /\ pc = "main"
    /\ issue_no = None
    /\ acceptance = None
    /\ DOCS_STATUS \in InitialStatusFiles
    /\ iteration = 1
    /\ last_logs = <<>>
    /\ instr = NoInstr
    /\ patch_msg = PatchMsg("No patch")
    /\ run_logs = <<>>
    /\ cmd_i = 1
    /\ result = NoResult
    /\ passed = FALSE
    /\ exit_code = 0
    /\ requests = 0
    /\ executed = <<>>
    /\ patched = "none"
    /\ checked = 0
    /\ invalid = FALSE
    /\ abort = "none"
    /\ written = EmptyDict
    /\ unreported = "none"

\* one call update_status(data), lines 51-60
StoreUpdate ==
    /\ pc = "main"
    /\ \E data \in StorePartials :
         IF UpdateStatusRaises(DOCS_STATUS)
         THEN Raise("update_status") /\ UNCHANGED <<DOCS_STATUS, written>>
         ELSE WriteStatus(data) /\ UNCHANGED <<pc, exit_code, abort>>
    /\ UNCHANGED <<issue_no, acceptance, iteration, last_logs, instr, patch_msg, run_logs,
                   cmd_i, result, passed, requests, executed, patched, checked, invalid,
                   unreported>>

StoreNext == StoreUpdate

StoreSpec == StoreInit /\ [][StoreNext]_vars

\* ------------------------------------------------------------------ claims
Phase(p) == StatusHas(DOCS_STATUS, "phase", p)
Exited == pc = "exited"

\* C1: an iteration whose acceptance check passes ends the run in that
\* iteration with phase=done, progress=100, result=passed in the status
\* record, and nothing runs afterwards: a run that has ended in an iteration
\* whose check passed holds the done record, and once phase=done is recorded
\* the process has ended (no request, patch or command follows, and the
\* phase is not overwritten).
C1_PassedRunEndsDone ==
    /\ (Exited /\ checked = 1 /\ passed) =>
          /\ Phase("done")
          /\ StatusHas(DOCS_STATUS, "progress", 100)
          /\ StatusHas(DOCS_STATUS, "result", "passed")
    /\ Phase("done") => Exited

\* C2: a run with an Acceptance Spec that has started iterating, whose
\* instructions are valid and none of whose acceptance checks passes, ends
\* with phase=failed, result=max_iterations after exactly max_iter requests
\* to the Instruction Source.
C2_AllFailEndsAtMaxIter ==
    (Exited /\ acceptance # None /\ requests >= 1 /\ ~invalid /\ ~passed) =>
        /\ Phase("failed")
        /\ StatusHas(DOCS_STATUS, "result", "max_iterations")
        /\ requests = max_iter

\* C3, as stated: without an Acceptance Spec done_no_accept is reached after
\* exactly one iteration.
C3_DoneNoAcceptAfterOneIteration ==
    (acceptance = None /\ Phase("done_no_accept")) => requests = 1

\* C3, amended: without an Acceptance Spec, the first iteration that gets
\* past validation and patch application and leaves its command loop records
\* phase=done_no_accept, progress=100 and ends the run, whatever the exit
\* codes of its commands; the command loop always leads there.
C3_FirstCompleteIterationEnds ==
    [][ /\ (pc = "save_logs" => pc' = "accept")
        /\ (pc = "accept" /\ acceptance = None) =>
              /\ StatusHas(DOCS_STATUS', "phase", "done_no_accept")
              /\ StatusHas(DOCS_STATUS', "progress", 100)
              /\ pc' = "exited" ]_vars

LastExit == IF executed = <<>> THEN 0 ELSE executed[Len(executed)].code

C3_Witness ==
    /\ Exited /\ acceptance = None /\ Phase("done_no_accept")
    /\ LastExit # 0
    /\ requests = 2

\* C4: an invalid or unparseable instruction at iteration k ends the run at
\* once in the failed state; iteration k applies no patch, runs no command
\* and no acceptance check, and no further instruction is requested.
C4_InvalidInstructionEndsFailed ==
    (Exited /\ invalid) =>
        /\ Phase("failed")
        /\ executed = <<>> /\ patched = "none" /\ checked = 0
        /\ requests = iteration

\* C5: fail-fast.  The commands started in an iteration are a prefix of the
\* instruction's list in list order; every started command but the last
\* exited 0 (nothing runs after the first nonzero exit); the log has one
\* entry per started command and no other; and when the command loop has
\* ended the prefix stops at the first nonzero exit or is the whole list,
\* and the aggregated log is the patch message followed by those entries.
C5_FailFastPrefix ==
    /\ Len(executed) <= Len(Commands(instr))
    /\ \A j \in 1..Len(executed) :
         /\ executed[j].i = j
         /\ executed[j].cmd = Commands(instr)[j].cmd.s
         /\ j < Len(executed) => executed[j].code = 0
    /\ Len(run_logs) = Len(executed)
    /\ \A j \in 1..Len(run_logs) :
         run_logs[j].cmd = executed[j].cmd /\ run_logs[j].code = executed[j].code
    /\ pc \in {"save_logs", "accept", "verdict"} =>
         (Len(executed) = Len(Commands(instr)) \/ LastExit # 0)
    /\ pc \in {"accept", "verdict"} =>
         (Len(last_logs) = 1 + Len(executed) /\ SubSeq(last_logs, 2, Len(last_logs)) = run_logs)

C5_Witness ==
    /\ pc = "accept"
    /\ Len(Commands(instr)) = 2
    /\ Len(executed) = 1 /\ executed[1].code = 1
    /\ Len(last_logs) = 2

\* C6: a failed patch is recoverable: the iteration runs no command and no
\* acceptance check, the patch message becomes the carried log, and the loop
\* goes on with iteration k+1.
C6_PatchFailureAdvances ==
    [][ pc = "patch_error" =>
          /\ executed = <<>> /\ checked = 0
          /\ last_logs' = <<patch_msg>>
          /\ iteration' = iteration + 1
          /\ pc' = "loop" ]_vars

\* C7: the verdict is true exactly when the exit code is 0 and the expected
\* text is a literal, case-sensitive infix of the captured output:
\* out = before \o expected \o after for some texts before, after.
IsInfix(sub, s) ==
    \E before \in 0..Len(s), after \in 0..Len(s) :
        /\ before + Len(sub) + after = Len(s)
        /\ \A k \in 1..Len(sub) : s[before + k] = sub[k]

C7_VerdictIffZeroAndInfix ==
    pc = "verdict" =>
        (passed <=> (result.code = 0 /\ IsInfix(acceptance.expect_contains.s, result.out)))

C7_Witness ==
    /\ pc = "verdict" /\ passed
    /\ Len(acceptance.expect_contains.s) = 2
    /\ Len(result.out) = 3

\* C8: the process exits 0 when the final phase is done or done_no_accept and
\* nonzero when it is failed.
C8_ExitCodeMatchesPhase ==
    Exited =>
        /\ (Phase("done") \/ Phase("done_no_accept")) => exit_code = 0
        /\ Phase("failed") => exit_code # 0

\* C9: a notification that cannot be delivered never aborts the run.
C9_NotificationFailureTolerated ==
    ~(Exited /\ abort = "post_issue_comment")

\* C10: the Shell Executor never raises: no command or acceptance run ends
\* the orchestrator by an exception.
C10_RunCmdNeverRaises ==
    ~(Exited /\ abort = "run_cmd")

\* C11: a command that runs past its timeout gives exit code -9 and the
\* marker "[TIMEOUT after {timeout}s]" as its output, as data and not as an
\* exception; the orchestrator treats it like any nonzero exit: the command
\* loop stops there, an acceptance check gets the verdict false, and the run
\* is not ended because of it (the process ends with a timed-out result at
\* hand only by the completion without Acceptance Spec, or by the exception
\* of a notification).
C11_TimeoutIsData ==
    result.timed_out =>
        /\ ~result.raised
        /\ result.code = -9
        /\ result.out = <<"[TIMEOUT after ", ToString(result.timeout), "s]">>
        /\ pc \in {"save_logs", "accept", "verdict", "exited"}
        /\ pc = "verdict" => ~passed
        /\ checked = 0 => (executed # <<>> /\ LastExit = -9)
        /\ Exited => \/ abort = "post_issue_comment"
                     \/ abort = "none" /\ Phase("done_no_accept")

C11_Witness ==
    /\ pc = "save_logs"
    /\ result.timed_out
    /\ result.timeout = 5
    /\ Len(executed) = 2 /\ Len(Commands(instr)) = 2

\* C12: the Status Store update is a merge: after any sequence of update
\* calls the record maps each key ever written to the value written last, and
\* a call leaves every key it does not name with the value it had.
C12_UpdateIsMerge ==
    /\ [](\A k \in DOMAIN written : StatusHas(DOCS_STATUS, k, written[k]))
    /\ [][\A k \in DOMAIN DOCS_STATUS.obj :
            \/ k \in DOMAIN written' /\ k \notin DOMAIN written
            \/ k \in DOMAIN written /\ written'[k] # written[k]
            \/ /\ k \in DOMAIN DOCS_STATUS'.obj
               /\ DOCS_STATUS'.obj[k] = DOCS_STATUS.obj[k]]_vars

C12_Witness ==
    /\ StatusHas(DOCS_STATUS, "phase", "b")
    /\ StatusHas(DOCS_STATUS, "result", "a")
    /\ StatusHas(DOCS_STATUS, "progress", 83)
    /\ DOMAIN written = {"phase", "result"}

\* C13: when the persisted record is missing or corrupt (unparseable, or
\* parseable but not a mapping), a call of update leaves the record equal to
\* exactly the partial record of the call.
C13_CorruptTreatedAsEmpty ==
    [][(~DOCS_STATUS.exists \/ DOCS_STATUS.json # "object") =>
          /\ DOCS_STATUS'.exists
          /\ DOCS_STATUS'.json = "object"
          /\ DOCS_STATUS'.obj = written']_vars

\* C14: for an empty or whitespace-only patch text the Patch Applier returns
\* success with "No patch provided", neither writing the scratch patch file
\* nor running the patch tool, and the orchestrator goes on to the commands of
\* the instruction.
C14_BlankPatchIsNoop ==
    /\ [](\A t \in PatchTexts : StripIsEmpty(t) =>
             apply_patch(t) = {[ok |-> TRUE, msg |-> PatchMsg("No patch provided"),
                                wrote |-> FALSE, tool |-> FALSE]})
    /\ [][(pc = "patch" /\ instr.patch.t = "string" /\ StripIsEmpty(instr.patch.s)) =>
             /\ pc' = "commands"
             /\ cmd_i' = 1
             /\ patched' = IF instr.patch.s = <<>> THEN "none" ELSE "noop"
             /\ patch_msg' = IF instr.patch.s = <<>> THEN PatchMsg("No patch")
                              ELSE PatchMsg("No patch provided")]_vars

C14_Witness ==
    /\ patched = "noop"
    /\ patch_msg = PatchMsg("No patch provided")
    /\ Len(executed) = 1

\* C15: with an issue number, every patch application outcome (failure as
\* well as success), every executed command, every acceptance check and the
\* final verdict is followed by a notification before the next such event
\* occurs; the final verdict is followed by one before the process ends.
PatchEvent == patched' # patched /\ patched' \in {"applied", "failed"}
CommandEvent == Len(executed') > Len(executed)
AcceptanceEvent == checked' > checked
VerdictEvent ==
    \E p \in {"done", "done_no_accept", "failed"} :
        StatusHas(DOCS_STATUS', "phase", p) /\ ~StatusHas(DOCS_STATUS, "phase", p)
C15_EventsAreReported ==
    /\ [][(issue_no # None /\ abort' = "none"
               /\ (PatchEvent \/ CommandEvent \/ AcceptanceEvent \/ VerdictEvent))
            => unreported = "none"]_vars
    /\ []((Exited /\ abort = "none") => unreported = "none")

\* C16: the result max_iterations is recorded only when the iteration counter
\* has exceeded max_iter; a run stopped at an iteration k <= max_iter by an
\* invalid instruction is not recorded with the result max_iterations.
C16_MaxIterationsOnlyWhenExhausted ==
    ("result" \in DOMAIN written /\ written["result"] = "max_iterations") =>
        /\ iteration > max_iter
        /\ ~invalid

\* C17: in every iteration whose instruction is valid and whose patch, if
\* any, did not fail, the acceptance check is run exactly once when there is
\* an Acceptance Spec: never twice, only after the command loop has stopped
\* (at its end or at a nonzero exit), and the iteration does not end without
\* it, also when the instruction has no patch and no commands.
CommandsStopped ==
    \/ Len(executed) = Len(Commands(instr))
    \/ executed # <<>> /\ LastExit # 0
IterationUnderWay ==
    /\ requests >= 1
    /\ ~invalid
    /\ patched # "failed"
    /\ pc \notin {"loop", "patch"}
    /\ ~Phase("failed")
C17_AcceptanceOncePerIteration ==
    (acceptance # None /\ IterationUnderWay) =>
        /\ checked <= 1
        /\ checked = 1 => CommandsStopped
        /\ pc = "verdict" => checked = 1
        /\ Exited => checked = 1

\* C18 (as claimed): the write at the start of iteration k records phase
\* iterating and progress floor((k-1)/max_iter*100); during the run the
\* progress of the persisted record is within 0..100, never decreases, and is
\* 100 only with the phase done or done_no_accept.
IsFloorOfPercent(q, k) ==
    /\ q * max_iter <= (k - 1) * 100
    /\ (k - 1) * 100 < (q + 1) * max_iter
IterationStarts == pc = "loop" /\ pc' \in {"patch", "invalid"}
C18_RecordedProgress ==
    /\ [][IterationStarts =>
            /\ StatusHas(DOCS_STATUS', "phase", "iterating")
            /\ IsFloorOfPercent(DOCS_STATUS'.obj["progress"], iteration)]_vars
    /\ []((pc # "main" /\ abort # "update_status" /\ "progress" \in DOMAIN DOCS_STATUS.obj) =>
            /\ DOCS_STATUS.obj["progress"] \in 0..100
            /\ DOCS_STATUS.obj["progress"] = 100 =>
                   Phase("done") \/ Phase("done_no_accept"))
    /\ [][(pc # "main" /\ "progress" \in DOMAIN DOCS_STATUS.obj) =>
            DOCS_STATUS.obj["progress"] <= DOCS_STATUS'.obj["progress"]]_vars

\* C18 (amended): the same of the progress values the run itself writes
C18_WrittenProgress ==
    /\ [][IterationStarts =>
            /\ written'["phase"] = "iterating"
            /\ IsFloorOfPercent(written'["progress"], iteration)]_vars
    /\ []("progress" \in DOMAIN written =>
            /\ written["progress"] \in 0..100
            /\ written["progress"] = 100 => written["phase"] \in {"done", "done_no_accept"})
    /\ [][("progress" \in DOMAIN written) =>
            written["progress"] <= written'["progress"]]_vars

C18_Witness ==
    /\ Exited /\ Phase("done")
    /\ iteration = 3
    /\ written["progress"] = 100

\* C19: every run terminates: the process ends, and it ends in the phase
\* done, done_no_accept or failed, after at most max_iter requests; the
\* iteration counter starts at 1 and grows by exactly 1 per round of the loop,
\* whether the round ended by a patch failure or by a failed acceptance.
RoundEnds == pc \in {"patch_error", "verdict"} /\ pc' = "loop"
C19_RunTerminates ==
    /\ <>Exited
    /\ [](Exited => /\ "phase" \in DOMAIN written
                    /\ written["phase"] \in {"done", "done_no_accept", "failed"})
    /\ [](requests <= max_iter)
    /\ [](pc = "main" => iteration = 1)
    /\ [][/\ iteration' \in {iteration, iteration + 1}
          /\ RoundEnds <=> iteration' = iteration + 1]_vars

\* C20: no key of the status record is removed during a run; once a patch
\* failure has written error = patch_failed with its detail, both keys stay,
\* and a run that passes acceptance afterwards has phase done, result passed
\* and still error = patch_failed in its record.
C20_KeysPersist ==
    /\ [][DOCS_STATUS.json = "object" =>
            (DOMAIN DOCS_STATUS.obj) \subseteq (DOMAIN DOCS_STATUS'.obj)]_vars
    /\ []("error" \in DOMAIN written =>
            /\ "detail" \in DOMAIN written \/ invalid
            /\ \A k \in DOMAIN written : k \in DOMAIN DOCS_STATUS.obj)
    /\ []((StatusHas(DOCS_STATUS, "phase", "done") /\ "error" \in DOMAIN written) =>
            /\ StatusHas(DOCS_STATUS, "result", "passed")
            /\ StatusHas(DOCS_STATUS, "error", "patch_failed")
            /\ "detail" \in DOMAIN DOCS_STATUS.obj
            /\ DOCS_STATUS.obj["detail"].text = "Patch failed")

C20_Witness ==
    /\ Exited /\ exit_code = 0
    /\ StatusHas(DOCS_STATUS, "phase", "done")
    /\ StatusHas(DOCS_STATUS, "result", "passed")
    /\ StatusHas(DOCS_STATUS, "error", "patch_failed")
    /\ iteration = 2

====
